---- MODULE Spec2Model ----
(***************************************************************************)
(* A model of hoopy's SOCKS4 proxy core, src/hoopy/asocks.py (class Socks). *)
(*                                                                         *)
(* One session per accepted client.  A session's dispatcher task runs      *)
(* Socks._serve, which calls Socks._connect or Socks._bind; a granted      *)
(* CONNECT spawns two Socks._relay tasks.  Every action below is the code  *)
(* a task runs between two suspension points (await), so the interleaving  *)
(* is the one asyncio's single-threaded loop allows.  The client, the      *)
(* CONNECT target and the hosts that connect to a BIND socket are the      *)
(* environment.                                                            *)
(*                                                                         *)
(* A stream (client or target) is one asyncio transport:                   *)
(*   in    the bytes the remote end sent that no read has returned yet,    *)
(*   out   the bytes the proxy wrote that reached the remote end,          *)
(*   eof   the remote end half-closed its sending side,                    *)
(*   stat  "open", "closed" (the proxy called writer.close()) or "lost"    *)
(*         (the remote end reset the connection).                          *)
(* asyncio's StreamWriter.write drops the data once the transport is       *)
(* closed or lost, StreamWriter.drain then raises, StreamReader.read       *)
(* raises on a lost connection and returns b'' at end of stream.           *)
(***************************************************************************)
EXTENDS Integers, Sequences, FiniteSets, TLC

\* ------------------------------------------------------------------ bounds
\* Bytes each side may send as relayed payload in one session.
MaxPayload == 2
\* Hosts that may connect to one session's BIND listening socket.
MaxInbound == 2

\* --------------------------------------------------------------- constants
\* _bufsize = 1 << 12 in _serve, and the chunk _relay reads.
BufSize == 4096

\* The clients the listener may accept, one session each.
Sessions == {1, 2}

None == "None"

\* The replies of _connect and _bind.
Rejected == <<0, 91, 255, 255, 255, 255, 255, 255>>

\* The mutant of GrantedConnect: the reply echoes the requested port and
\* address.
GrantedConnectEcho == <<0, 90, 0, 80, 127, 0, 0, 1>>

GrantedConnect == <<0, 90, 255, 255, 255, 255, 255, 255>>

\* The methods _serve recognises.
CONNECT == 1
BIND == 2

\* ----------------------------------------------------------- environment
\* What a client may send as its request: CONNECT 127.0.0.1:80 with an empty
\* user id, the same with user id "u", BIND expecting 10.0.0.5, the unknown
\* method 3, and a 5-byte buffer.
Requests ==
    { <<4, 1, 0, 80, 127, 0, 0, 1, 0>>,
      <<4, 1, 0, 80, 127, 0, 0, 1, 117, 0>>,
      <<4, 2, 0, 80, 10, 0, 0, 5, 0>>,
      <<4, 3, 0, 80, 127, 0, 0, 1, 0>>,
      <<4, 1, 0, 80, 127>> }

\* The payload bytes either side may relay.
PayloadBytes == {97, 98}

\* The hosts that may connect to a BIND listening socket.
InboundAddrs == { <<10, 0, 0, 5>>, <<10, 0, 0, 9>> }

\* ------------------------------------------------------------ wire codec
Min(a, b) == IF a < b THEN a ELSE b

Take(q, n) == SubSeq(q, 1, Min(n, Len(q)))

Drop(q, n) == SubSeq(q, n + 1, Len(q))

IsPrefix(p, q) == Len(p) <= Len(q) /\ SubSeq(q, 1, Len(p)) = p

\* len(req) < 8: the request is badly formed.
Malformed(r) == Len(r) < 8

\* What _serve writes to the client before it returns on a badly formed
\* request or an incorrect method: nothing.
NoReplyRejected == Rejected

NoReply == <<>>

\* struct.unpack('!BBHI', req[:8]): version, command, big-endian port and
\* big-endian address.
unpack(r) ==
    [ vn   |-> r[1],
      cd   |-> r[2],
      port |-> r[3] * 256 + r[4],
      ip   |-> ((r[5] * 256 + r[6]) * 256 + r[7]) * 256 + r[8] ]

\* inet_ntoa(struct.pack('!I', ip)): the address as its four octets.
inet_ntoa(ip) ==
    << (ip \div 16777216) % 256, (ip \div 65536) % 256,
       (ip \div 256) % 256, ip % 256 >>

\* The if/elif/else on cd in _serve.
DispatchElseConnect(cd) ==
    IF cd = BIND THEN "bind" ELSE "connect"

Dispatch(cd) ==
    IF cd = CONNECT THEN "connect"
    ELSE IF cd = BIND THEN "bind"
    ELSE "none"

\* _bound defines the coroutine `handler` and ends without a return
\* statement: the callback _bind hands to asyncio.start_server is None.
bound == None

\* server.get_extra_info('sockname') in _bind: asyncio's Server has no
\* get_extra_info, and inet_aton(saddr) is a bytes object, which has no
\* to_bytes: evaluating the reply raises AttributeError before any write.
SocknameRaises == TRUE

\* b'\x00\x5A' + sport.to_bytes(2, 'big') + <4 address bytes>.
GrantedBind(sport, saddr) ==
    <<0, 90, sport \div 256, sport % 256>> \o saddr

\* The ephemeral socket the OS gives a BIND session.
BoundPort == 40000
BoundAddr == <<192, 168, 0, 1>>

\* ------------------------------------------------------------------ state
VARIABLES
    pc,         \* session -> where its dispatcher task (_serve) stands
    req,        \* session -> what the initial reader.read returned
    outcome,    \* session -> how the dial or the bind ended
    flushed,    \* session -> the await writer.drain() after the reply returned
    strm,       \* session -> the client stream and the target stream
    creq,       \* session -> the request bytes the client sent
    pay,        \* session -> the payload bytes each side sent, in order
    pump,       \* session -> where each of its two _relay tasks stands
    listening,  \* session -> its BIND socket is open and listening
    inbound     \* session -> the remote addresses accepted on its BIND socket

vars == <<pc, req, outcome, flushed, strm, creq, pay, pump, listening, inbound>>

Streams == {"client", "target"}

\* The two relay tasks of a session, named by their direction.
Pumps == {"c2t", "t2c"}

NoStream == [in |-> <<>>, out |-> <<>>, eof |-> FALSE, stat |-> "none"]

OpenStream == [in |-> <<>>, out |-> <<>>, eof |-> FALSE, stat |-> "open"]

NoPumps == [p \in Pumps |-> "none"]

\* asyncio.create_task(self._relay(...)) twice: both tasks await their
\* first read.
BothPumps == [p \in Pumps |-> "read"]

\* StreamWriter.write: the bytes reach the remote end unless the transport
\* is closed or lost, when they are dropped.
Write(st, data) ==
    IF st.stat = "open" THEN [st EXCEPT !.out = @ \o data] ELSE st

\* StreamWriter.close.
Close(st) ==
    IF st.stat = "open" THEN [st EXCEPT !.stat = "closed"] ELSE st

Init ==
    /\ pc = [s \in Sessions |-> "idle"]
    /\ req = [s \in Sessions |-> <<>>]
    /\ outcome = [s \in Sessions |-> "none"]
    /\ flushed = [s \in Sessions |-> FALSE]
    /\ strm = [s \in Sessions |-> [k \in Streams |-> NoStream]]
    /\ creq = [s \in Sessions |-> <<>>]
    /\ pay = [s \in Sessions |-> [k \in Streams |-> <<>>]]
    /\ pump = [s \in Sessions |-> NoPumps]
    /\ listening = [s \in Sessions |-> FALSE]
    /\ inbound = [s \in Sessions |-> <<>>]

\* ---------------------------------------------------------------- listener
\* _start: the server accepts a client and starts _serve(reader, writer),
\* which awaits its read.
Accept(s) ==
    /\ pc[s] = "idle"
    /\ pc' = [pc EXCEPT ![s] = "read"]
    /\ strm' = [strm EXCEPT ![s].client = OpenStream]
    /\ UNCHANGED <<req, outcome, flushed, creq, pay, pump, listening, inbound>>

\* ------------------------------------------------------------- the client
\* The client sends its request.
ClientRequest(s, r) ==
    /\ strm[s].client.stat = "open"
    /\ ~strm[s].client.eof
    /\ creq[s] = <<>>
    /\ creq' = [creq EXCEPT ![s] = r]
    /\ strm' = [strm EXCEPT ![s].client.in = r]
    /\ UNCHANGED <<pc, req, outcome, flushed, pay, pump, listening, inbound>>

\* The client has the granted reply: bytes 00 5A and six more.
ClientGranted(s) ==
    /\ Len(strm[s].client.out) >= 8
    /\ strm[s].client.out[1] = 0
    /\ strm[s].client.out[2] = 90

\* The client writes one payload byte, after it received the granted reply.
ClientSend(s, b) ==
    /\ strm[s].client.stat = "open"
    /\ ~strm[s].client.eof
    /\ ClientGranted(s)
    /\ Len(pay[s].client) < MaxPayload
    /\ pay' = [pay EXCEPT ![s].client = Append(@, b)]
    /\ strm' = [strm EXCEPT ![s].client.in = Append(@, b)]
    /\ UNCHANGED <<pc, req, outcome, flushed, creq, pump, listening, inbound>>

\* The remote end of stream k half-closes: end of stream after what it sent.
RemoteEOF(s, k) ==
    /\ strm[s][k].stat = "open"
    /\ ~strm[s][k].eof
    /\ strm' = [strm EXCEPT ![s][k].eof = TRUE]
    /\ UNCHANGED <<pc, req, outcome, flushed, creq, pay, pump, listening, inbound>>

\* The remote end of stream k resets the connection: the transport is lost.
RemoteAbort(s, k) ==
    /\ strm[s][k].stat = "open"
    /\ strm' = [strm EXCEPT ![s][k].stat = "lost", ![s][k].in = <<>>]
    /\ UNCHANGED <<pc, req, outcome, flushed, creq, pay, pump, listening, inbound>>

\* ------------------------------------------------------------- the target
\* The target writes one payload byte, at any time after the dial.
TargetSend(s, b) ==
    /\ strm[s].target.stat = "open"
    /\ ~strm[s].target.eof
    /\ Len(pay[s].target) < MaxPayload
    /\ pay' = [pay EXCEPT ![s].target = Append(@, b)]
    /\ strm' = [strm EXCEPT ![s].target.in = Append(@, b)]
    /\ UNCHANGED <<pc, req, outcome, flushed, creq, pump, listening, inbound>>

\* -------------------------------------------------------------- _serve
\* Where _serve goes with the request r its read returned: it returns on a
\* badly formed request or an incorrect method, and otherwise awaits
\* asyncio.open_connection in _connect or asyncio.start_server in _bind.
AfterRead(r) ==
    IF Malformed(r) THEN "done"
    ELSE LET m == Dispatch(unpack(r).cd)
         IN  IF m = "connect" THEN "dial"
             ELSE IF m = "bind" THEN "bind"
             ELSE "done"

\* req = await reader.read(_bufsize) returns r; _serve runs to its next await
\* or to its end.
Served(s, r, rest) ==
    /\ req' = [req EXCEPT ![s] = r]
    /\ pc' = [pc EXCEPT ![s] = AfterRead(r)]
    /\ strm' = [strm EXCEPT
                  ![s].client = IF AfterRead(r) = "done"
                                THEN Write([@ EXCEPT !.in = rest], NoReply)
                                ELSE [@ EXCEPT !.in = rest]]
    /\ UNCHANGED <<outcome, flushed, creq, pay, pump, listening, inbound>>

\* The initial read returns what has arrived, at most _bufsize bytes: any
\* non-empty prefix of what the client sent.
ServeRead(s) ==
    /\ pc[s] = "read"
    /\ strm[s].client.stat = "open"
    /\ strm[s].client.in # <<>>
    /\ \E n \in 1..Min(Len(strm[s].client.in), BufSize) :
          Served(s, Take(strm[s].client.in, n), Drop(strm[s].client.in, n))

\* The initial read returns b'': the client closed before sending anything.
ServeReadEOF(s) ==
    /\ pc[s] = "read"
    /\ strm[s].client.stat = "open"
    /\ strm[s].client.in = <<>>
    /\ strm[s].client.eof
    /\ Served(s, <<>>, <<>>)

\* The mutant of ServeReadError: the exception is not kept within the
\* session's task and ends every session's dispatcher.
ServeReadErrorFatal(s) ==
    /\ pc[s] = "read"
    /\ strm[s].client.stat = "lost"
    /\ pc' = [u \in Sessions |-> "raised"]
    /\ UNCHANGED <<req, outcome, flushed, strm, creq, pay, pump, listening, inbound>>

\* The initial read raises: the client reset the connection.  The exception
\* leaves _serve.
ServeReadError(s) ==
    /\ pc[s] = "read"
    /\ strm[s].client.stat = "lost"
    /\ pc' = [pc EXCEPT ![s] = "raised"]
    /\ UNCHANGED <<req, outcome, flushed, strm, creq, pay, pump, listening, inbound>>

\* ------------------------------------------------------------ _connect
\* The mutant of DialFail: the granted reply is written after the rejected
\* one.
DialFailBoth(s) ==
    /\ pc[s] = "dial"
    /\ outcome' = [outcome EXCEPT ![s] = "dialfail"]
    /\ strm' = [strm EXCEPT ![s].client = Write(Write(@, Rejected), GrantedConnect)]
    /\ pc' = [pc EXCEPT ![s] = "rej_drain"]
    /\ UNCHANGED <<req, flushed, creq, pay, pump, listening, inbound>>

\* asyncio.open_connection raised: write the rejected reply, await drain.
DialFail(s) ==
    /\ pc[s] = "dial"
    /\ outcome' = [outcome EXCEPT ![s] = "dialfail"]
    /\ strm' = [strm EXCEPT ![s].client = Write(@, Rejected)]
    /\ pc' = [pc EXCEPT ![s] = "rej_drain"]
    /\ UNCHANGED <<req, flushed, creq, pay, pump, listening, inbound>>

\* The mutant of ConnectGranted: the relays are set up right after the
\* write, without awaiting the drain.
ConnectGrantedNoDrain(s) ==
    /\ strm' = [strm EXCEPT ![s].client = Write(@, GrantedConnect),
                            ![s].target = OpenStream]
    /\ pc' = [pc EXCEPT ![s] = "done"]
    /\ pump' = [pump EXCEPT ![s] = BothPumps]

\* asyncio.open_connection returned (sreader, swriter): write the granted
\* reply and await the drain.
ConnectGranted(s) ==
    /\ strm' = [strm EXCEPT ![s].client = Write(@, GrantedConnect),
                            ![s].target = OpenStream]
    /\ pc' = [pc EXCEPT ![s] = "grant_drain"]
    /\ pump' = pump

DialOk(s) ==
    /\ pc[s] = "dial"
    /\ outcome' = [outcome EXCEPT ![s] = "dialed"]
    /\ ConnectGranted(s)
    /\ UNCHANGED <<req, flushed, creq, pay, listening, inbound>>

\* ---------------------------------------------------------------- _bind
\* The mutant of BindFail: the failure is logged and nothing is written.
BindFailNoReply(s) ==
    /\ pc[s] = "bind"
    /\ outcome' = [outcome EXCEPT ![s] = "bindfail"]
    /\ strm' = strm
    /\ pc' = [pc EXCEPT ![s] = "bindrej_drain"]
    /\ UNCHANGED <<req, flushed, creq, pay, pump, listening, inbound>>

\* asyncio.start_server raised: write the rejected reply, await drain.
BindFail(s) ==
    /\ pc[s] = "bind"
    /\ outcome' = [outcome EXCEPT ![s] = "bindfail"]
    /\ strm' = [strm EXCEPT ![s].client = Write(@, Rejected)]
    /\ pc' = [pc EXCEPT ![s] = "bindrej_drain"]
    /\ UNCHANGED <<req, flushed, creq, pay, pump, listening, inbound>>

\* asyncio.start_server returned: the socket listens from now on.  _bind
\* goes on to build its reply from server.get_extra_info('sockname'), which
\* raises; the exception leaves _bind and _serve, and nothing closes the
\* server.  Were the reply built, it would be written and the drain awaited.
BindOk(s) ==
    /\ pc[s] = "bind"
    /\ outcome' = [outcome EXCEPT ![s] = "bound"]
    /\ listening' = [listening EXCEPT ![s] = TRUE]
    /\ IF SocknameRaises
       THEN /\ pc' = [pc EXCEPT ![s] = "raised"]
            /\ strm' = strm
       ELSE /\ pc' = [pc EXCEPT ![s] = "bindgrant_drain"]
            /\ strm' = [strm EXCEPT
                          ![s].client = Write(@, GrantedBind(BoundPort, BoundAddr))]
    /\ UNCHANGED <<req, flushed, creq, pay, pump, inbound>>

\* The body of `handler`, the coroutine _bound defines: a connection from an
\* address other than the expected one is dropped, any other gets the two
\* relays.
handler(s, raddr) ==
    IF raddr # inet_ntoa(unpack(req[s]).ip)
    THEN UNCHANGED <<strm, pump>>
    ELSE /\ strm' = [strm EXCEPT ![s].target = OpenStream]
         /\ pump' = [pump EXCEPT ![s] = BothPumps]

\* The mutant of Inbound: the callback is a handler that sets up the relays
\* for whoever connects.
InboundNoCheck(s, raddr) ==
    /\ listening[s]
    /\ Len(inbound[s]) < MaxInbound
    /\ inbound' = [inbound EXCEPT ![s] = Append(@, raddr)]
    /\ strm' = [strm EXCEPT ![s].target = OpenStream]
    /\ pump' = [pump EXCEPT ![s] = BothPumps]
    /\ UNCHANGED <<pc, req, outcome, flushed, creq, pay, listening>>

\* A host connects to the session's listening socket.  asyncio accepts the
\* connection and calls the callback start_server was given, when there is
\* one.
Inbound(s, raddr) ==
    /\ listening[s]
    /\ Len(inbound[s]) < MaxInbound
    /\ inbound' = [inbound EXCEPT ![s] = Append(@, raddr)]
    /\ IF bound = None
       THEN UNCHANGED <<strm, pump>>
       ELSE handler(s, raddr)
    /\ UNCHANGED <<pc, req, outcome, flushed, creq, pay, listening>>

\* ------------------------------------------------- await writer.drain()
\* _connect after the drain of its granted reply: the two relays are set up
\* and _connect returns.
AfterGrantDrain(s) ==
    /\ pump' = [pump EXCEPT ![s] = BothPumps]
    /\ pc' = [pc EXCEPT ![s] = "done"]
    /\ strm' = strm

\* The mutant of AfterRejDrain: the relays are set up on the failure path too.
AfterRejDrainRelays(s) ==
    /\ pump' = [pump EXCEPT ![s] = BothPumps]
    /\ pc' = [pc EXCEPT ![s] = "done"]
    /\ strm' = [strm EXCEPT ![s].client = Close(@)]

\* _connect after the drain of its rejected reply: writer.close(), return.
AfterRejDrain(s) ==
    /\ pump' = pump
    /\ pc' = [pc EXCEPT ![s] = "done"]
    /\ strm' = [strm EXCEPT ![s].client = Close(@)]

\* _bind after the drain of its rejected reply: log and return.
AfterBindRejDrain(s) ==
    /\ pump' = pump
    /\ pc' = [pc EXCEPT ![s] = "done"]
    /\ strm' = strm

\* _bind after the drain of its granted reply: async with server: await
\* server.serve_forever(), which does not return.
AfterBindGrantDrain(s) ==
    /\ pump' = pump
    /\ pc' = [pc EXCEPT ![s] = "serving"]
    /\ strm' = strm

DrainPcs == {"grant_drain", "rej_drain", "bindrej_drain", "bindgrant_drain"}

\* The await writer.drain() that follows a reply returns, or raises when the
\* client connection is gone; the exception leaves the handler and _serve.
ReplyDrain(s) ==
    /\ pc[s] \in DrainPcs
    /\ IF strm[s].client.stat # "open"
       THEN /\ pc' = [pc EXCEPT ![s] = "raised"]
            /\ UNCHANGED <<flushed, strm, pump>>
       ELSE /\ flushed' = [flushed EXCEPT ![s] = TRUE]
            /\ CASE pc[s] = "grant_drain" -> AfterGrantDrain(s)
                 [] pc[s] = "rej_drain" -> AfterRejDrain(s)
                 [] pc[s] = "bindrej_drain" -> AfterBindRejDrain(s)
                 [] pc[s] = "bindgrant_drain" -> AfterBindGrantDrain(s)
    /\ UNCHANGED <<req, outcome, creq, pay, listening, inbound>>

\* --------------------------------------------------------------- _relay
\* _relay(reader, swriter) reads the client and writes the target,
\* _relay(sreader, writer) reads the target and writes the client.
\* The mutant of Src: both relays are given the client's reader.
SrcClient(p) == "client"

Src(p) == IF p = "c2t" THEN "client" ELSE "target"

\* The mutant of Dst: both relays are given the client's writer.
DstClient(p) == "client"

Dst(p) == IF p = "c2t" THEN "target" ELSE "client"

\* writer.write(fm): what the relay writes for the chunk fm it read.
Forwarded(fm) == fm

\* fm = await reader.read(1 << 12) returns a non-empty chunk: the relay
\* writes it and awaits the drain.  Data that arrived before the proxy closed
\* the stream may still be returned.
RelayRead(s, p) ==
    /\ pump[s][p] = "read"
    /\ strm[s][Src(p)].stat \in {"open", "closed"}
    /\ strm[s][Src(p)].in # <<>>
    /\ \E n \in 1..Min(Len(strm[s][Src(p)].in), BufSize) :
          LET fm == Take(strm[s][Src(p)].in, n)
              s1 == [strm[s] EXCEPT ![Src(p)].in = Drop(@, n)]
              s2 == [s1 EXCEPT ![Dst(p)] = Write(@, Forwarded(fm))]
          IN  strm' = [strm EXCEPT ![s] = s2]
    /\ pump' = [pump EXCEPT ![s][p] = "drain"]
    /\ UNCHANGED <<pc, req, outcome, flushed, creq, pay, listening, inbound>>

\* The read returns b'': the source is at end of stream, or the proxy closed
\* it.  The loop is not entered; writer.close() and the relay ends.
RelayEOF(s, p) ==
    /\ pump[s][p] = "read"
    /\ \/ strm[s][Src(p)].stat = "closed"
       \/ /\ strm[s][Src(p)].stat = "open"
          /\ strm[s][Src(p)].in = <<>>
          /\ strm[s][Src(p)].eof
    /\ LET s1 == [strm[s] EXCEPT ![Src(p)].in = <<>>]
           s2 == [s1 EXCEPT ![Dst(p)] = Close(@)]
       IN  strm' = [strm EXCEPT ![s] = s2]
    /\ pump' = [pump EXCEPT ![s][p] = "done"]
    /\ UNCHANGED <<pc, req, outcome, flushed, creq, pay, listening, inbound>>

\* The read raises: the source connection was reset.  The read is outside
\* the try, so the exception ends the relay before its writer.close().
RelayReadError(s, p) ==
    /\ pump[s][p] = "read"
    /\ strm[s][Src(p)].stat = "lost"
    /\ pump' = [pump EXCEPT ![s][p] = "raised"]
    /\ UNCHANGED <<pc, req, outcome, flushed, strm, creq, pay, listening, inbound>>

\* await writer.drain() returns and the relay reads again, or it raises: the
\* except breaks the loop, writer.close() and the relay ends.
RelayDrain(s, p) ==
    /\ pump[s][p] = "drain"
    /\ IF strm[s][Dst(p)].stat = "open"
       THEN /\ pump' = [pump EXCEPT ![s][p] = "read"]
            /\ strm' = strm
       ELSE /\ pump' = [pump EXCEPT ![s][p] = "done"]
            /\ strm' = [strm EXCEPT ![s][Dst(p)] = Close(@)]
    /\ UNCHANGED <<pc, req, outcome, flushed, creq, pay, listening, inbound>>

\* ------------------------------------------------------- specification
\* The first client to connect, whose session Spec follows with the full
\* environment.
First == {1}

Next ==
    \E s \in First :
        \/ Accept(s)
        \/ \E r \in Requests : ClientRequest(s, r)
        \/ \E b \in PayloadBytes : ClientSend(s, b)
        \/ \E b \in PayloadBytes : TargetSend(s, b)
        \/ \E k \in Streams : RemoteEOF(s, k)
        \/ \E k \in Streams : RemoteAbort(s, k)
        \/ ServeRead(s)
        \/ ServeReadEOF(s)
        \/ ServeReadError(s)
        \/ DialFail(s)
        \/ DialOk(s)
        \/ BindFail(s)
        \/ BindOk(s)
        \/ \E a \in InboundAddrs : Inbound(s, a)
        \/ ReplyDrain(s)
        \/ \E p \in Pumps : RelayRead(s, p)
        \/ \E p \in Pumps : RelayEOF(s, p)
        \/ \E p \in Pumps : RelayReadError(s, p)
        \/ \E p \in Pumps : RelayDrain(s, p)

Spec == Init /\ [][Next]_vars

\* Two clients, their sessions interleaved in every way.  To keep the
\* product of the two sessions within reach, the clients and targets send no
\* payload: what the relays carry is the part of a request the initial read
\* left unread.
NextTwo ==
    \E s \in Sessions :
        \/ Accept(s)
        \/ \E r \in Requests : ClientRequest(s, r)
        \/ \E k \in Streams : RemoteEOF(s, k)
        \/ \E k \in Streams : RemoteAbort(s, k)
        \/ ServeRead(s)
        \/ ServeReadEOF(s)
        \/ ServeReadError(s)
        \/ DialFail(s)
        \/ DialOk(s)
        \/ BindFail(s)
        \/ BindOk(s)
        \/ \E a \in InboundAddrs : Inbound(s, a)
        \/ ReplyDrain(s)
        \/ \E p \in Pumps : RelayRead(s, p)
        \/ \E p \in Pumps : RelayEOF(s, p)
        \/ \E p \in Pumps : RelayReadError(s, p)
        \/ \E p \in Pumps : RelayDrain(s, p)

SpecTwo == Init /\ [][NextTwo]_vars

\* --------------------------------------------------------------- claims
\* A relay of session s has been started.
Relaying(s) == \E p \in Pumps : pump[s][p] # "none"

\* The request bytes the initial read left unread: they follow in the
\* client stream and the client-to-target relay reads them first.
Leftover(s) == Drop(creq[s], Len(req[s]))

\* The initial read of session s has returned.
ReadReturned(s) == pc[s] \notin {"idle", "read"} /\ ~(pc[s] = "raised" /\ outcome[s] = "none")

\* The replies as the claims spell them: 00 5A and 00 5B, then six FF.
Reply5A == <<0, 90, 255, 255, 255, 255, 255, 255>>

Reply5B == <<0, 91, 255, 255, 255, 255, 255, 255>>

\* C1: in every session, no relay is started before the granted reply has
\* been written to the client and the drain that follows it has returned.
C1_RelaysAfterFlush ==
    \A s \in Sessions :
        Relaying(s) => /\ flushed[s]
                       /\ ClientGranted(s)
                       /\ pc[s] = "done"

C1_Witness ==
    \E s \in Sessions :
        /\ outcome[s] = "dialed"
        /\ flushed[s]
        /\ pump[s]["c2t"] = "drain"
        /\ pump[s]["t2c"] = "read"

\* C2: after a dial that succeeded, what the client has received is either
\* nothing yet or starts with the 8 bytes 00 5A FF FF FF FF FF FF, so that
\* every byte relayed from the target comes after them.
C2_GrantedFirst ==
    \A s \in Sessions :
        outcome[s] = "dialed" =>
            /\ \/ strm[s].client.out = <<>>
               \/ Take(strm[s].client.out, 8) = Reply5A
            /\ Relaying(s) => Take(strm[s].client.out, 8) = Reply5A

C2_Witness ==
    \E s \in Sessions :
        /\ outcome[s] = "dialed"
        /\ pay[s].target = <<97, 98>>
        /\ strm[s].client.out = Reply5A \o <<97, 98>>

\* C3 as stated: after a dial that failed, once the handler has ended the
\* client has received exactly the rejected reply, the client connection is
\* closed and no relay was started.
C3_Original ==
    \A s \in Sessions :
        (outcome[s] = "dialfail" /\ pc[s] \in {"done", "raised"}) =>
            /\ strm[s].client.out = Reply5B
            /\ strm[s].client.stat = "closed"
            /\ ~Relaying(s)

\* C3 as amended: after a dial that failed no relay is ever started and no
\* target stream exists; when the drain of the reply returns, the client has
\* received exactly the rejected reply and the handler has closed the client
\* connection; when the client has reset the connection, the drain raises,
\* the handler ends without closing, and the client has received nothing
\* but, at most, that reply.
C3_RejectedThenClosed ==
    \A s \in Sessions :
        outcome[s] = "dialfail" =>
            /\ ~Relaying(s)
            /\ strm[s].target.stat = "none"
            /\ strm[s].client.out \in {<<>>, Reply5B}
            /\ pc[s] \in {"rej_drain", "done", "raised"}
            /\ pc[s] = "done" => /\ strm[s].client.out = Reply5B
                                 /\ strm[s].client.stat = "closed"
                                 /\ flushed[s]
            /\ pc[s] = "raised" => strm[s].client.stat = "lost"

C3_Witness ==
    \E s \in Sessions :
        /\ outcome[s] = "dialfail"
        /\ pc[s] = "done"
        /\ strm[s].client.out = Reply5B
        /\ strm[s].client.stat = "closed"

C5_ShortReadNoEffect ==
    \A s \in Sessions :
        (ReadReturned(s) /\ Malformed(req[s])) =>
            /\ pc[s] = "done"
            /\ outcome[s] = "none"
            /\ ~listening[s]
            /\ strm[s].target.stat = "none"
            /\ ~Relaying(s)
            /\ strm[s].client.out = <<>>

C5_Witness ==
    \E s \in Sessions :
        /\ pc[s] = "done"
        /\ Len(creq[s]) >= 8
        /\ Len(req[s]) = 5

\* C6 as stated: a session that ended on a badly formed request or on an
\* incorrect method has its client stream closed by the dispatcher.
C6_ClosedOnBadRequest ==
    \A s \in Sessions :
        (pc[s] = "done" /\ (Malformed(req[s]) \/ unpack(req[s]).cd \notin {CONNECT, BIND}))
            => strm[s].client.stat = "closed"

\* C7: a dial or a bind happens only for a command byte of 1 or 2; after a
\* request with any other command byte the session has ended with no reply
\* written, nothing dialled and nothing bound.
C7_CommandChecked ==
    \A s \in Sessions :
        (ReadReturned(s) /\ ~Malformed(req[s])) =>
            /\ (pc[s] \in {"dial", "bind"} \/ outcome[s] # "none")
                  => unpack(req[s]).cd \in {CONNECT, BIND}
            /\ unpack(req[s]).cd \notin {CONNECT, BIND} =>
                  /\ pc[s] = "done"
                  /\ outcome[s] = "none"
                  /\ ~listening[s]
                  /\ strm[s].target.stat = "none"
                  /\ ~Relaying(s)
                  /\ strm[s].client.out = <<>>

C7_Witness ==
    \E s \in Sessions :
        /\ pc[s] = "done"
        /\ ~Malformed(req[s])
        /\ unpack(req[s]).cd = 3

\* C8 as stated: once a bind has succeeded and _bind has gone past its
\* reply, the client has received 00 5A followed by the port and the address
\* of the socket that was bound.
C8_BindReplyCarriesSocket ==
    \A s \in Sessions :
        (outcome[s] = "bound" /\ pc[s] \in {"done", "raised", "serving"}) =>
            Take(strm[s].client.out, 8) = GrantedBind(BoundPort, BoundAddr)

\* C9 as stated: in a BIND session whose socket is bound, once a connection
\* from the expected address has been accepted the two relays are started.
C9_MatchingPeerRelayed ==
    \A s \in Sessions :
        (outcome[s] = "bound"
            /\ \E i \in 1..Len(inbound[s]) :
                  inbound[s][i] = inet_ntoa(unpack(req[s]).ip))
            => \A p \in Pumps : pump[s][p] # "none"

\* C10 as stated: a BIND session accepts at most one inbound connection on
\* its listening socket.
C10_SingleInbound ==
    \A s \in Sessions : Len(inbound[s]) <= 1

\* The address a BIND session expects its peer to connect from: the four
\* address bytes of its request.
Expected(s) == inet_ntoa(unpack(req[s]).ip)

\* The step accepts, in session s, an inbound connection from an address
\* other than the expected one.
MismatchedInbound(s) ==
    /\ Len(inbound'[s]) = Len(inbound[s]) + 1
    /\ inbound'[s][Len(inbound'[s])] # Expected(s)

\* C11: in a BIND session, accepting an inbound connection from an address
\* other than the expected one starts no relay and writes nothing to the
\* client, and a session that only such hosts connected to has no relay.
\* The handler takes the address of the peer name and drops its port
\* (raddr, _ = ...), so an inbound connection is its address.
C11_MismatchDiscarded ==
    /\ [](\A s \in Sessions :
            (outcome[s] = "bound"
                /\ \A i \in 1..Len(inbound[s]) : inbound[s][i] # Expected(s))
            => ~Relaying(s))
    /\ [][\A s \in Sessions :
            MismatchedInbound(s) =>
                /\ pump'[s] = pump[s]
                /\ strm'[s] = strm[s]
                /\ pc'[s] = pc[s]]_vars

C11_Witness ==
    \E s \in Sessions :
        /\ outcome[s] = "bound"
        /\ inbound[s] = << <<10, 0, 0, 9>> >>
        /\ ~Relaying(s)
        /\ strm[s].client.out = <<>>

\* The relay p of session s has ended, by leaving its loop or by an
\* exception.
Exited(s, p) == pump[s][p] \in {"done", "raised"}

\* C13 as stated: a relay that has ended, on an error of its read, of its
\* write or of its drain, or on the end of its source, has closed its
\* destination stream.
C13_ExitClosesDestination ==
    \A s \in Sessions : \A p \in Pumps :
        Exited(s, p) => strm[s][Dst(p)].stat # "open"

\* C14 as stated, in its final result: once both relays of a session have
\* ended, neither the client stream nor the target stream is open.
C14_BothStreamsClosed ==
    \A s \in Sessions :
        (\A p \in Pumps : Exited(s, p)) =>
            \A k \in Streams : strm[s][k].stat # "open"

\* The relay p of session s is running: it awaits its read or its drain.
Live(s, p) == pump[s][p] \in {"read", "drain"}

\* The tasks that use the read side of stream k of session s: the
\* dispatcher while it awaits its initial read of the client, and every
\* running relay whose source is k.
Readers(s, k) ==
    {p \in Pumps : Live(s, p) /\ Src(p) = k}
        \cup (IF k = "client" /\ pc[s] = "read" THEN {"serve"} ELSE {})

\* The tasks that use the write side of stream k of session s: the handler
\* from its dispatch until it ends or hands over, and every running relay
\* whose destination is k.
Writers(s, k) ==
    {p \in Pumps : Live(s, p) /\ Dst(p) = k}
        \cup (IF k = "client" /\ pc[s] \in {"dial", "bind", "serving"} \cup DrainPcs
              THEN {"serve"} ELSE {})

\* C15: at every moment each stream has at most one task reading it and at
\* most one task writing it; the relays run only once the dispatcher and
\* its handler have ended.
C15_OneUserPerSide ==
    \A s \in Sessions :
        /\ \A k \in Streams :
              /\ Cardinality(Readers(s, k)) <= 1
              /\ Cardinality(Writers(s, k)) <= 1
        /\ (\E p \in Pumps : Live(s, p)) => pc[s] = "done"

C15_Witness ==
    \E s \in Sessions :
        /\ Readers(s, "client") = {"c2t"}
        /\ Writers(s, "client") = {"t2c"}
        /\ Readers(s, "target") = {"t2c"}
        /\ Writers(s, "target") = {"c2t"}
        /\ pump[s]["c2t"] = "drain"
        /\ pump[s]["t2c"] = "drain"

\* C16 as stated: after a bind that failed, once the handler has ended the
\* client has received exactly the rejected reply, no inbound connection is
\* awaited and no relay was started.
C16_Original ==
    \A s \in Sessions :
        (outcome[s] = "bindfail" /\ pc[s] \in {"done", "raised"}) =>
            /\ strm[s].client.out = Reply5B
            /\ ~listening[s]
            /\ inbound[s] = <<>>
            /\ ~Relaying(s)

\* C16 as amended: after a bind that failed the session never listens,
\* accepts no inbound connection and starts no relay; when the drain of the
\* reply returns, the client has received exactly the rejected reply; when
\* the client has reset the connection, the drain raises and the client has
\* received nothing but, at most, that reply.
C16_BindRejected ==
    \A s \in Sessions :
        outcome[s] = "bindfail" =>
            /\ ~listening[s]
            /\ inbound[s] = <<>>
            /\ ~Relaying(s)
            /\ strm[s].target.stat = "none"
            /\ strm[s].client.out \in {<<>>, Reply5B}
            /\ pc[s] \in {"bindrej_drain", "done", "raised"}
            /\ pc[s] = "done" => /\ strm[s].client.out = Reply5B
                                 /\ flushed[s]
            /\ pc[s] = "raised" => strm[s].client.stat = "lost"

C16_Witness ==
    \E s \in Sessions :
        /\ outcome[s] = "bindfail"
        /\ pc[s] = "done"
        /\ strm[s].client.out = Reply5B
        /\ strm[s].client.stat = "open"

\* C17: what the proxy itself has sent a client is nothing or one 8-byte
\* reply, 00 5A .. or 00 5B .., and every byte after it is a byte relayed
\* from the target; a rejected reply is followed by nothing, and relays run
\* only in a session whose reply was the granted one.
C17_OneReply ==
    \A s \in Sessions :
        /\ \/ strm[s].client.out = <<>>
           \/ /\ Take(strm[s].client.out, 8) \in {Reply5A, Reply5B}
              /\ IsPrefix(Drop(strm[s].client.out, 8), pay[s].target)
              /\ Take(strm[s].client.out, 8) = Reply5B => Len(strm[s].client.out) = 8
        /\ Relaying(s) => Take(strm[s].client.out, 8) = Reply5A

C17_Witness ==
    \E s \in Sessions :
        /\ Relaying(s)
        /\ pay[s].target = <<97, 97>>
        /\ strm[s].client.out = Reply5A \o <<97, 97>>

\* C18 as stated: in a CONNECT session the target has received only bytes
\* the client sent after its request, in the order it sent them: no byte of
\* the request.
C18_NoRequestByteForwarded ==
    \A s \in Sessions :
        outcome[s] = "dialed" => IsPrefix(strm[s].target.out, pay[s].client)

\* Every task of session s has ended: the dispatcher with its handler, and
\* each relay that was started.
AllEnded(s) ==
    /\ pc[s] \in {"done", "raised"}
    /\ \A p \in Pumps : pump[s][p] \in {"none", "done", "raised"}

\* C19 as stated: once every task of a session has ended, the target stream
\* a successful dial opened is not open any more.
C19_TargetNotLeaked ==
    \A s \in Sessions :
        (outcome[s] = "dialed" /\ AllEnded(s)) => strm[s].target.stat # "open"

\* Everything the model holds of session s.
SessionState(s) ==
    <<pc[s], req[s], outcome[s], flushed[s], strm[s], creq[s], pay[s],
      pump[s], listening[s], inbound[s]>>

\* Session s has ended in an error: its dispatcher returned on a bad request
\* or a failed dial or bind, or an exception ended it or one of its relays.
Failed(s) ==
    \/ pc[s] = "raised"
    \/ pc[s] = "done" /\ outcome[s] \in {"none", "dialfail", "bindfail"}
    \/ \E p \in Pumps : pump[s][p] = "raised"
    \/ \E p \in Pumps : pump[s][p] = "done" /\ strm[s][Dst(p)].stat = "lost"

\* C12: a step of one session, and so any error in it, leaves every other
\* session as it was; and whatever sessions have failed, the listener still
\* accepts a client that has not connected yet.
C12_ErrorsStayLocal ==
    /\ [][\A t \in Sessions :
            SessionState(t)' # SessionState(t) =>
                \A u \in Sessions \ {t} : SessionState(u)' = SessionState(u)]_vars
    /\ [](\A u \in Sessions : pc[u] = "idle" => ENABLED Accept(u))

C12_Witness ==
    /\ pc[1] = "raised"
    /\ outcome[1] = "dialed"
    /\ Failed(1)
    /\ pc[2] = "done"
    /\ outcome[2] = "dialed"
    /\ strm[2].target.out = <<117, 0>>
    /\ \A p \in Pumps : Live(2, p)

====
